---- MODULE Spec2Model ----
(***************************************************************************)
(* Route-matrix proxy (src/app/api/route-matrix/route.ts): the POST        *)
(* handler, its process-wide cache and the periodic cache sweep; then the  *)
(* wire payload the handler builds, verifyAuthToken, the useArchiveStation *)
(* hook and the autorisation rows of StationForm, each a component with a  *)
(* variable and a specification of its own.                                *)
(*                                                                         *)
(* A JavaScript string is a sequence of atoms (one-character strings, and  *)
(* whole words for the option values); "|" and "," are the delimiters the  *)
(* code splits on.  A JavaScript value is a record [type, s, err]: s is    *)
(* the string rendering the template literal produces, err the text of     *)
(* value.error.message ("" when absent).                                   *)
(***************************************************************************)
EXTENDS Integers, Sequences, FiniteSets, TLC

VARIABLES cache, clock, req, nextSweep, wire, auth, hook, form

vars == <<cache, clock, req, nextSweep, wire, auth, hook, form>>

\* What the proxy's handler and sweep never touch.
outside == <<nextSweep, wire, auth, hook, form>>

\* What the other components never touch.
proxy == <<cache, clock, req, nextSweep>>

----------------------------------------------------------------------------
(* Program constants *)

MAX_DESTINATIONS == 25

CACHE_TTL_MS == 1000 * 60 * 5

----------------------------------------------------------------------------
(* Bounds of the model *)

\* The clock advances in steps of CACHE_TTL_MS / TicksPerTTL milliseconds.
TicksPerTTL == 2

\* The clock stops after MaxTicks steps.
MaxTicks == 3

TickMs == CACHE_TTL_MS \div TicksPerTTL

\* The handler invocations that may be in flight at once.
Slots == {"r1", "r2"}

----------------------------------------------------------------------------
(* JavaScript values *)

Undefined == [type |-> "undefined", s |-> <<"undefined">>, err |-> ""]

Null == [type |-> "null", s |-> <<"null">>, err |-> ""]

Str(s) == [type |-> "string", s |-> s, err |-> ""]

Num(s) == [type |-> "number", s |-> s, err |-> ""]

Obj(id, err) == [type |-> "object", s |-> <<id>>, err |-> err]

\* Mutant of Truthy: only undefined and null are falsy.
TruthyUnlessNullish(v) == v.type \notin {"undefined", "null"}

\* ToBoolean, as used by !x, x || y and if (x).
Truthy(v) ==
  CASE v.type = "undefined" -> FALSE
    [] v.type = "null"      -> FALSE
    [] v.type = "string"    -> Len(v.s) > 0
    [] v.type = "number"    -> v.s # <<"0">>
    [] OTHER                -> TRUE

\* A destructuring default applies to undefined only.
Default(v, d) == IF v.type = "undefined" THEN d ELSE v

\* String.prototype.split(sep) for a one-character separator, from position
\* i on: the piece up to the next separator, then the pieces after it.
RECURSIVE SplitFrom(_, _, _)
SplitFrom(s, sep, i) ==
  LET at == {j \in i..Len(s) : s[j] = sep}
  IN  IF at = {} THEN << SubSeq(s, i, Len(s)) >>
      ELSE LET j == CHOOSE x \in at : \A y \in at : x <= y
           IN  << SubSeq(s, i, j - 1) >> \o SplitFrom(s, sep, j + 1)

\* "".split('|') is [""]: one empty piece.
Split(s, sep) == SplitFrom(s, sep, 1)

----------------------------------------------------------------------------
(* Cache *)

NoEntry == [data |-> Undefined, timestamp |-> -1]

\* cache.get(key): the entry, or undefined (NoEntry).
CacheGet(key) == IF key \in DOMAIN cache THEN cache[key] ELSE NoEntry

\* Mutant of CacheSet: an existing entry is kept (first writer wins).
CacheSetIfAbsent(key, entry) ==
  [k \in DOMAIN cache \cup {key} |-> IF k \in DOMAIN cache THEN cache[k] ELSE entry]

\* Mutant of CacheSet: the map is replaced by the one new entry.
CacheSetOnly(key, entry) == [k \in {key} |-> entry]

\* Mutant of CacheSet: an overwritten entry keeps its old timestamp.
CacheSetKeepStamp(key, entry) ==
  [k \in DOMAIN cache \cup {key} |->
     IF k # key THEN cache[k]
     ELSE IF key \in DOMAIN cache
          THEN [entry EXCEPT !.timestamp = cache[key].timestamp]
          ELSE entry]

\* cache.set(key, entry)
CacheSet(key, entry) ==
  [k \in DOMAIN cache \cup {key} |-> IF k = key THEN entry ELSE cache[k]]

\* Mutant of Expired: an entry exactly CACHE_TTL_MS old is swept.
ExpiredAtTTL(entry, now) == now - entry.timestamp >= CACHE_TTL_MS

\* Mutant of Expired: an entry is swept only when more than twice the TTL old.
ExpiredLate(entry, now) == now - entry.timestamp > 2 * CACHE_TTL_MS

\* The sweep's test: now - value.timestamp > CACHE_TTL_MS.
Expired(entry, now) == now - entry.timestamp > CACHE_TTL_MS

\* Mutant of Fresh: the lookup is switched off.
FreshNever(entry, now) == FALSE

\* Mutant of Fresh: an entry exactly CACHE_TTL_MS old is still served.
FreshAtTTL(entry, now) == entry # NoEntry /\ now - entry.timestamp <= CACHE_TTL_MS

\* The lookup's test: cachedEntry && (now - cachedEntry.timestamp < CACHE_TTL_MS).
Fresh(entry, now) == entry # NoEntry /\ now - entry.timestamp < CACHE_TTL_MS

\* cleanupCache(): delete every expired entry.
Swept(now) ==
  [k \in {x \in DOMAIN cache : ~Expired(cache[x], now)} |-> cache[k]]

----------------------------------------------------------------------------
(* Inputs *)

\* "3,4"
OriginText == <<"3", ",", "4">>

\* "1,2"
CoordText == <<"1", ",", "2">>

\* n copies of "1,2" joined by "|".
Piped(n) ==
  [i \in 1..(4 * n - 1) |->
     CASE i % 4 = 1 -> "1"
       [] i % 4 = 2 -> ","
       [] i % 4 = 3 -> "2"
       [] OTHER     -> "|"]

Body(o, d, m) ==
  [origins |-> o, destinations |-> d, mode |-> m,
   units |-> Undefined, language |-> Undefined]

NoBody == Body(Undefined, Undefined, Undefined)

\* The request bodies a caller may send: origins missing, destinations
\* empty, 26 destinations, a mode that is no string, and two that pass
\* validation (1 and 25 destinations).  "3,4" with 26 destinations and
\* "3,4|1,2" with 25 have the same fingerprint.
Bodies ==
  { Body(Undefined, Str(Piped(1)), Undefined),
    Body(Str(OriginText), Str(<<>>), Undefined),
    Body(Str(OriginText), Str(Piped(MAX_DESTINATIONS + 1)), Undefined),
    Body(Str(OriginText), Str(Piped(1)), Num(<<"7">>)),
    Body(Str(OriginText), Str(Piped(1)), Undefined),
    Body(Str(OriginText \o <<"|">> \o CoordText), Str(Piped(MAX_DESTINATIONS)), Undefined) }

\* process.env.GOOGLE_MAPS_API_KEY as a request finds it.
ApiKeys == {Undefined, Str(<<"k">>)}

\* The messages of the failures the awaited steps may reject with.
BodyFailures == {"", "Unexpected end of JSON input"}

FetchFailures == {"fetch failed"}

JsonFailures == {"Unexpected token < in JSON at position 0"}

\* What the upstream answers: its HTTP status and its JSON body.
UpstreamStatuses == {200, 429, 500}

UpstreamData == {Obj("A", ""), Obj("B", "denied"), Null, Num(<<"0">>)}

----------------------------------------------------------------------------
(* Responses *)

NoResponse == [status |-> 0, error |-> "", data |-> Undefined]

\* NextResponse.json({ error }, { status })
ErrorResponse(status, text) == [status |-> status, error |-> text, data |-> Undefined]

\* NextResponse.json(data)
DataResponse(data) == [status |-> 200, error |-> "", data |-> data]

\* Mutant of Caught: no fallback text for a failure without a message.
CaughtNoFallback(message) == ErrorResponse(500, message)

\* The catch block: error.message || 'Internal Server Error', status 500.
Caught(message) ==
  ErrorResponse(500, IF message # "" THEN message ELSE "Internal Server Error")

----------------------------------------------------------------------------
(* The handler *)

Idle ==
  [pc |-> "idle", body |-> NoBody, apiKey |-> Undefined, cacheKey |-> <<>>,
   calls |-> 0, upstream |-> 0, response |-> NoResponse]

\* const cacheKey = `${origins}|${destinations}|${mode}|${units}|${language}`
CacheKey(origins, destinations, mode, units, language) ==
  origins.s \o <<"|">> \o destinations.s \o <<"|">> \o mode.s
    \o <<"|">> \o units.s \o <<"|">> \o language.s

\* Mutant of TooMany: off by one.
TooManyOffByOne(destinationCount) == destinationCount > MAX_DESTINATIONS + 1

\* destinationCount > MAX_DESTINATIONS
TooMany(destinationCount) == destinationCount > MAX_DESTINATIONS

\* Mutant of Validation: the destination count is checked before the
\* credential.
ValidationCountFirst(origins, destinations, apiKey) ==
  IF ~Truthy(origins) \/ ~Truthy(destinations)
  THEN ErrorResponse(400, "Missing origins or destinations")
  ELSE IF destinations.type # "string"
  THEN Caught("destinations.split is not a function")
  ELSE IF TooMany(Len(Split(destinations.s, "|")))
  THEN ErrorResponse(400, "Exceeds max 25 destinations.")
  ELSE IF ~Truthy(apiKey)
  THEN ErrorResponse(400, "Missing API key")
  ELSE NoResponse

\* The three checks before the cache lookup, in the code's order: the
\* response of the first that fails, NoResponse when all pass.
Validation(origins, destinations, apiKey) ==
  IF ~Truthy(origins) \/ ~Truthy(destinations)
  THEN ErrorResponse(400, "Missing origins or destinations")
  ELSE IF ~Truthy(apiKey)
  THEN ErrorResponse(400, "Missing API key")
  ELSE IF destinations.type # "string"
  THEN Caught("destinations.split is not a function")
  ELSE IF TooMany(Len(Split(destinations.s, "|")))
  THEN ErrorResponse(400, "Exceeds max 25 destinations.")
  ELSE NoResponse

\* Mutant of ResponseOk: every status below 500 counts as a success.
ResponseOkBelow500(status) == status < 500

\* response.ok
ResponseOk(status) == 200 <= status /\ status <= 299

\* Mutant of Entry: the timestamp is not taken from the clock.
EntryUnstamped(data, now) == [data |-> data, timestamp |-> 0]

\* { data, timestamp: Date.now() }
Entry(data, now) == [data |-> data, timestamp |-> now]

\* The handler returns `response`.
Returned(r, response) == [r EXCEPT !.pc = "done", !.response = response]

\* Lines 23-93 on a body read from the request: validation, the cache
\* lookup, and the start of the outbound call.
Begin(body, apiKey) ==
  LET origins      == body.origins
      destinations == body.destinations
      mode         == Default(body.mode, Str(<<"DRIVE">>))
      units        == Default(body.units, Str(<<"METRIC">>))
      language     == Default(body.language, Str(<<"fr">>))
      r            == [Idle EXCEPT !.body = body, !.apiKey = apiKey]
      invalid      == Validation(origins, destinations, apiKey)
  IN
  IF invalid # NoResponse
  THEN Returned(r, invalid)
  ELSE
    LET cacheKey    == CacheKey(origins, destinations, mode, units, language)
        cachedEntry == CacheGet(cacheKey)
        now         == clock
        looked      == [r EXCEPT !.cacheKey = cacheKey]
    IN
    IF Fresh(cachedEntry, now)
    THEN Returned(looked, DataResponse(cachedEntry.data))
    ELSE IF origins.type # "string"
    THEN Returned(looked, Caught("origins.split is not a function"))
    ELSE IF mode.type # "string"
    THEN Returned(looked, Caught("mode.toUpperCase is not a function"))
    ELSE IF units.type # "string"
    THEN Returned(looked, Caught("units.toUpperCase is not a function"))
    ELSE [looked EXCEPT !.pc = "fetch", !.calls = @ + 1]

\* Lines 97-112 on the upstream's parsed body: the status mapping, the
\* cache write and the response.  The result is <<slot, cache>>.
Finish(r, data) ==
  IF ~ResponseOk(r.upstream)
  THEN IF r.upstream = 429
       THEN <<Returned(r, ErrorResponse(429, "Rate limit exceeded. Try later.")), cache>>
       ELSE IF data.type \in {"null", "undefined"}
       THEN <<Returned(r, Caught("Cannot read properties of null (reading 'error')")), cache>>
       ELSE <<Returned(r, ErrorResponse(r.upstream,
                 "HTTP Error: " \o ToString(r.upstream) \o " - "
                   \o (IF data.err # "" THEN data.err ELSE "Unknown"))), cache>>
  ELSE IF Truthy(data)
  THEN <<Returned(r, DataResponse(data)), CacheSet(r.cacheKey, Entry(data, clock))>>
  ELSE IF data.type \in {"null", "undefined"}
  THEN <<Returned(r, Caught("Cannot read properties of null (reading 'error')")), cache>>
  ELSE <<Returned(r, DataResponse(data)), cache>>

----------------------------------------------------------------------------
(* The other components before their first use *)

\* JSON.stringify(requestBody) before any request was built.
NoRequestBody ==
  [origins |-> <<>>, destinations |-> <<>>, travelMode |-> <<>>,
   languageCode |-> <<>>, units |-> <<>>]

\* No wire payload built yet.
WireIdle == [pc |-> "idle", origins |-> <<>>, items |-> <<>>, sent |-> NoRequestBody]

\* verifyAuthToken before a call: no header read, no token, nothing returned.
AuthIdle ==
  [pc |-> "idle", header |-> Null, token |-> <<>>, settled |-> "none", result |-> Null]

\* The calls of changeStationStatus that may be in flight at once.
Calls == {"c1", "c2"}

Stations == {"s1", "s2"}

\* The two values of Statut ('archivé' and 'en activité', written without
\* their accents).
Statuts == {"archive", "en activite"}

CallIdle == [pc |-> "idle", stationId |-> "", statut |-> "", thrown |-> ""]

\* useArchiveStation as mounted: useState(false), useState(null), no call
\* made, every station in service.
HookIdle ==
  [loading |-> FALSE, error |-> Null,
   call |-> [c \in Calls |-> CallIdle],
   stations |-> [x \in Stations |-> "en activite"]]

\* StationForm before the form data is there: form.autorisations ?? [].
FormIdle == [loaded |-> FALSE, autorisations |-> <<>>, timers |-> <<>>]

----------------------------------------------------------------------------
(* Actions *)

\* The proxy as the module load leaves it: an empty cache, no call in
\* flight, the first sweep due one interval later.
ProxyAtRest ==
  /\ cache = <<>>
  /\ clock = 0
  /\ req = [p \in Slots |-> Idle]
  /\ nextSweep = CACHE_TTL_MS

Init ==
  /\ ProxyAtRest
  /\ wire = WireIdle
  /\ auth = AuthIdle
  /\ hook = HookIdle
  /\ form = FormIdle

\* POST is called; request.json() rejects with message m and the catch
\* block answers.
PostBodyFails(p, m) ==
  /\ req[p].pc = "idle"
  /\ req' = [req EXCEPT ![p] = Returned(Idle, Caught(m))]
  /\ UNCHANGED <<cache, clock>>
  /\ UNCHANGED outside

\* Mutant of PostBegin: a cache hit refreshes the timestamp of the entry it
\* serves (sliding expiry).
PostBeginSliding(p, body, apiKey) ==
  /\ req[p].pc = "idle"
  /\ req' = [req EXCEPT ![p] = Begin(body, apiKey)]
  /\ cache' = LET r == Begin(body, apiKey)
              IN  IF r.pc = "done" /\ r.response.status = 200
                  THEN CacheSet(r.cacheKey, Entry(cache[r.cacheKey].data, clock))
                  ELSE cache
  /\ UNCHANGED clock
  /\ UNCHANGED outside

\* POST is called; request.json() resolves with body and the handler runs up
\* to its first return or to the outbound fetch.
PostBegin(p, body, apiKey) ==
  /\ req[p].pc = "idle"
  /\ req' = [req EXCEPT ![p] = Begin(body, apiKey)]
  /\ UNCHANGED <<cache, clock>>
  /\ UNCHANGED outside

\* The fetch rejects (network failure): the catch block answers.
FetchFails(p, m) ==
  /\ req[p].pc = "fetch"
  /\ req' = [req EXCEPT ![p] = Returned(@, Caught(m))]
  /\ UNCHANGED <<cache, clock>>
  /\ UNCHANGED outside

\* The fetch resolves with a response of some status.
FetchSettles(p, status) ==
  /\ req[p].pc = "fetch"
  /\ req' = [req EXCEPT ![p] = [@ EXCEPT !.pc = "json", !.upstream = status]]
  /\ UNCHANGED <<cache, clock>>
  /\ UNCHANGED outside

\* response.json() rejects: the catch block answers.
PostJsonFails(p, m) ==
  /\ req[p].pc = "json"
  /\ req' = [req EXCEPT ![p] = Returned(@, Caught(m))]
  /\ UNCHANGED <<cache, clock>>
  /\ UNCHANGED outside

\* response.json() resolves with data and the handler runs to its return.
PostFinish(p, data) ==
  /\ req[p].pc = "json"
  /\ req' = [req EXCEPT ![p] = Finish(req[p], data)[1]]
  /\ cache' = Finish(req[p], data)[2]
  /\ UNCHANGED clock
  /\ UNCHANGED outside

\* The response has been sent; the slot is free for the next call.
Deliver(p) ==
  /\ req[p].pc = "done"
  /\ req' = [req EXCEPT ![p] = Idle]
  /\ UNCHANGED <<cache, clock>>
  /\ UNCHANGED outside

\* setInterval(cleanupCache, CACHE_TTL_MS): a sweep runs.
CleanupCache ==
  /\ cache' = Swept(clock)
  /\ UNCHANGED <<clock, req>>
  /\ UNCHANGED outside

\* Date.now() moves on.
Tick ==
  /\ clock + TickMs <= MaxTicks * TickMs
  /\ clock' = clock + TickMs
  /\ UNCHANGED <<cache, req>>
  /\ UNCHANGED outside

Next ==
  \/ \E p \in Slots, m \in BodyFailures : PostBodyFails(p, m)
  \/ \E p \in Slots, body \in Bodies, apiKey \in ApiKeys : PostBegin(p, body, apiKey)
  \/ \E p \in Slots, m \in FetchFailures : FetchFails(p, m)
  \/ \E p \in Slots, status \in UpstreamStatuses : FetchSettles(p, status)
  \/ \E p \in Slots, m \in JsonFailures : PostJsonFails(p, m)
  \/ \E p \in Slots, data \in UpstreamData : PostFinish(p, data)
  \/ \E p \in Slots : Deliver(p)
  \/ CleanupCache
  \/ Tick

Spec == Init /\ [][Next]_vars

----------------------------------------------------------------------------
(* The proxy on requests whose parameters contain the separator *)

\* Three requests that pass validation: origins "3,4" with destinations
\* "1,2|1,2", origins "3,4|1,2" with destinations "1,2", and the first again
\* with mode "WALK".
KeyBodies ==
  { Body(Str(OriginText), Str(Piped(2)), Undefined),
    Body(Str(OriginText \o <<"|">> \o CoordText), Str(Piped(1)), Undefined),
    Body(Str(OriginText), Str(Piped(2)), Str(<<"WALK">>)) }

\* The payloads a successful upstream call returns.
Payloads == {Obj("A", ""), Obj("B", "denied")}

NextKeys ==
  \/ \E p \in Slots, body \in KeyBodies : PostBegin(p, body, Str(<<"k">>))
  \/ \E p \in Slots : FetchSettles(p, 200)
  \/ \E p \in Slots, data \in Payloads : PostFinish(p, data)
  \/ \E p \in Slots : Deliver(p)
  \/ CleanupCache
  \/ Tick

SpecKeys == Init /\ [][NextKeys]_vars

----------------------------------------------------------------------------
(* The proxy under its sweep timer (line 18) *)

\* The number of sweep intervals the clock runs through.
MaxSweeps == 3

\* setInterval(cleanupCache, CACHE_TTL_MS) fires: the sweep that is due runs
\* and the next one is due an interval later.
TimerSweep ==
  /\ clock = nextSweep
  /\ cache' = Swept(clock)
  /\ nextSweep' = nextSweep + CACHE_TTL_MS
  /\ UNCHANGED <<clock, req, wire, auth, hook, form>>

\* Date.now() moves on, never past a sweep that is due.
TimerTick ==
  /\ clock < nextSweep
  /\ clock + TickMs <= MaxSweeps * CACHE_TTL_MS
  /\ clock' = clock + TickMs
  /\ UNCHANGED <<cache, req, nextSweep, wire, auth, hook, form>>

NextSweep ==
  \/ \E p \in Slots : PostBegin(p, Body(Str(OriginText), Str(Piped(1)), Undefined), Str(<<"k">>))
  \/ \E p \in Slots : FetchSettles(p, 200)
  \/ \E p \in Slots, data \in Payloads : PostFinish(p, data)
  \/ \E p \in Slots : Deliver(p)
  \/ TimerSweep
  \/ TimerTick

SpecSweep == Init /\ [][NextSweep]_vars

----------------------------------------------------------------------------
(* The wire payload (lines 48-82) *)

\* A JavaScript number read from a decimal string: sign, integer part and
\* fraction digits without trailing zeros; NaN; or the undefined a
\* destructuring leaves when the array is too short.
Decimal(neg, int, frac) == [kind |-> "number", neg |-> neg, int |-> int, frac |-> frac]

NaN == [kind |-> "NaN", neg |-> FALSE, int |-> 0, frac |-> <<>>]

Absent == [kind |-> "undefined", neg |-> FALSE, int |-> 0, frac |-> <<>>]

Digits == <<"0", "1", "2", "3", "4", "5", "6", "7", "8", "9">>

IsDigit(c) == \E d \in 1..10 : Digits[d] = c

DigitValue(c) == (CHOOSE d \in 1..10 : Digits[d] = c) - 1

\* The value of a string of digits.
RECURSIVE DigitsValue(_)
DigitsValue(s) ==
  IF s = <<>> THEN 0
  ELSE 10 * DigitsValue(SubSeq(s, 1, Len(s) - 1)) + DigitValue(s[Len(s)])

\* Fraction digits without their trailing zeros.
RECURSIVE StripZeros(_)
StripZeros(s) ==
  IF s # <<>> /\ s[Len(s)] = "0" THEN StripZeros(SubSeq(s, 1, Len(s) - 1)) ELSE s

\* Number(s) for a string s: "" is 0, a signed decimal literal is its value,
\* anything else is NaN.
ToNumber(s) ==
  IF s = <<>> THEN Decimal(FALSE, 0, <<>>)
  ELSE
    LET neg  == s[1] = "-"
        mag  == IF neg THEN Tail(s) ELSE s
        dots == {i \in 1..Len(mag) : mag[i] = "."}
        dot  == IF dots = {} THEN Len(mag) + 1 ELSE CHOOSE i \in dots : TRUE
        int  == SubSeq(mag, 1, dot - 1)
        frac == SubSeq(mag, dot + 1, Len(mag))
    IN  IF \/ Cardinality(dots) > 1
           \/ int \o frac = <<>>
           \/ \E i \in 1..Len(mag) : i # dot /\ ~IsDigit(mag[i])
        THEN NaN
        ELSE LET value == DigitsValue(int)
                 digits == StripZeros(frac)
             IN  Decimal(neg /\ (value # 0 \/ digits # <<>>), value, digits)

\* Mutant of LatLng: longitude first.
LatLngSwapped(text) ==
  LET pieces == Split(text, ",")
  IN  [lat |-> IF Len(pieces) >= 2 THEN ToNumber(pieces[2]) ELSE Absent,
       lng |-> ToNumber(pieces[1])]

\* const [lat, lng] = d.split(',').map(Number)
LatLng(text) ==
  LET pieces == Split(text, ",")
  IN  [lat |-> ToNumber(pieces[1]),
       lng |-> IF Len(pieces) >= 2 THEN ToNumber(pieces[2]) ELSE Absent]

\* { waypoint: { location: { latLng: { latitude, longitude } } } }
Waypoint(coord) ==
  [waypoint |-> [location |-> [latLng |->
     [latitude |-> coord.lat, longitude |-> coord.lng]]]]

\* String.prototype.toUpperCase on the option words.
ToUpperCase(s) ==
  [i \in 1..Len(s) |->
     CASE s[i] = "drive"  -> "DRIVE"
       [] s[i] = "walk"   -> "WALK"
       [] s[i] = "metric" -> "METRIC"
       [] OTHER           -> s[i]]

\* requestBody of lines 49-82.
RequestBody(origins, destinations, mode, units, language) ==
  LET destArray == [i \in 1..Len(Split(destinations.s, "|")) |->
                      LatLng(Split(destinations.s, "|")[i])]
  IN  [origins        |-> << Waypoint(LatLng(origins.s)) >>,
       destinations   |-> [i \in 1..Len(destArray) |-> Waypoint(destArray[i])],
       travelMode     |-> ToUpperCase(mode.s),
       languageCode   |-> language.s,
       units          |-> ToUpperCase(units.s)]

\* The longest list of destination items enumerated in full.
MaxItems == 3

\* Destination items as a caller may write them: "1,2", "34.10,-6.1", "5",
\* "x,2", "" and "1,2,3".
ItemTexts ==
  { CoordText,
    <<"3", "4", ".", "1", "0", ",", "-", "6", ".", "1">>,
    <<"5">>,
    <<"x", ",", "2">>,
    <<>>,
    <<"1", ",", "2", ",", "3">> }

\* items joined by "|".
RECURSIVE JoinItems(_)
JoinItems(items) ==
  IF Len(items) = 1 THEN items[1]
  ELSE items[1] \o <<"|">> \o JoinItems(Tail(items))

\* The destinations of a request: the list of its items and their text.
\* Every list of up to MaxItems items, and 25 and 26 times "1,2".
DestinationLists ==
  { [items |-> l, text |-> JoinItems(l)] :
      l \in UNION { [1..n -> ItemTexts] : n \in 1..MaxItems } }
  \cup { [items |-> [i \in 1..n |-> CoordText], text |-> Piped(n)] :
           n \in {MAX_DESTINATIONS, MAX_DESTINATIONS + 1} }

\* "3,4" and "34.0,-6.0"
OriginTexts == { OriginText, <<"3", "4", ".", "0", ",", "-", "6", ".", "0">> }

WireModes == { Undefined, Str(<<"walk">>), Num(<<"7">>) }

\* The handler, on a body that passes validation and misses the cache, builds
\* the payload of its outbound call.
BuildRequest(o, d, mode) ==
  LET body == Body(Str(o), Str(d.text), mode)
  IN  /\ wire.pc = "idle"
      /\ Begin(body, Str(<<"k">>)).pc = "fetch"
      /\ wire' = [pc |-> "sent", origins |-> o, items |-> d.items,
                  sent |-> RequestBody(body.origins, body.destinations,
                                       Default(body.mode, Str(<<"DRIVE">>)),
                                       Default(body.units, Str(<<"METRIC">>)),
                                       Default(body.language, Str(<<"fr">>)))]
      /\ UNCHANGED <<proxy, auth, hook, form>>

\* The call is over.
WireDone ==
  /\ wire.pc = "sent"
  /\ wire' = WireIdle
  /\ UNCHANGED <<proxy, auth, hook, form>>

InitWire ==
  /\ ProxyAtRest
  /\ wire = WireIdle
  /\ auth = AuthIdle
  /\ hook = HookIdle
  /\ form = FormIdle

NextWire ==
  \/ \E o \in OriginTexts, d \in DestinationLists, mode \in WireModes :
       BuildRequest(o, d, mode)
  \/ WireDone

SpecWire == InitWire /\ [][NextWire]_vars

----------------------------------------------------------------------------
(* verifyAuthToken (serverAuth.ts, lines 22-46) *)

\* A header is a string of these atoms: the scheme with its space, the same
\* in lower case, and a token character.
HeaderAtoms == {"Bearer ", "bearer ", "t"}

\* The longest header enumerated.
MaxHeaderLen == 4

\* request.headers.get('authorization'): null when the header is absent.
Headers ==
  {Null} \cup { Str(h) : h \in UNION { [1..n -> HeaderAtoms] : n \in 0..MaxHeaderLen } }

\* The ID tokens the identity provider knows, and the uid each decodes to.
ValidTokens == { <<"t">>, <<"t", "t">> }

UidOf(token) == IF token = <<"t">> THEN "u1" ELSE "u2"

\* Mutant of StartsWithBearer: the scheme may stand anywhere in the header.
ContainsBearer(s) == \E i \in 1..Len(s) : s[i] = "Bearer "

\* authHeader.startsWith('Bearer ')
StartsWithBearer(s) == Len(s) >= 1 /\ s[1] = "Bearer "

\* Lines 25-37: the header checks and the token, up to the await.
VerifyStart(header) ==
  LET r == [AuthIdle EXCEPT !.header = header]
  IN  IF ~Truthy(header) \/ ~StartsWithBearer(header.s)
      THEN [r EXCEPT !.pc = "done", !.result = Null]
      ELSE LET token == Split(header.s, "Bearer ")[2]
           IN  IF token = <<>>
               THEN [r EXCEPT !.pc = "done", !.result = Null]
               ELSE [r EXCEPT !.pc = "verify", !.token = token]

\* verifyAuthToken(request) is called and runs to a return or to the await.
AuthCall(header) ==
  /\ auth.pc = "idle"
  /\ auth' = VerifyStart(header)
  /\ UNCHANGED <<proxy, wire, hook, form>>

\* auth().verifyIdToken(token) resolves: return decodedToken.uid.
AuthAccepts ==
  /\ auth.pc = "verify"
  /\ auth.token \in ValidTokens
  /\ auth' = [auth EXCEPT !.pc = "done", !.settled = "resolved",
                          !.result = Str(<<UidOf(auth.token)>>)]
  /\ UNCHANGED <<proxy, wire, hook, form>>

\* auth().verifyIdToken(token) rejects (unknown, expired or revoked token,
\* keys not fetched): the catch block returns null.
AuthRejects ==
  /\ auth.pc = "verify"
  /\ auth' = [auth EXCEPT !.pc = "done", !.settled = "rejected", !.result = Null]
  /\ UNCHANGED <<proxy, wire, hook, form>>

\* The caller has the result.
AuthReturn ==
  /\ auth.pc = "done"
  /\ auth' = AuthIdle
  /\ UNCHANGED <<proxy, wire, hook, form>>

InitAuth ==
  /\ ProxyAtRest
  /\ wire = WireIdle
  /\ auth = AuthIdle
  /\ hook = HookIdle
  /\ form = FormIdle

NextAuth ==
  \/ \E header \in Headers : AuthCall(header)
  \/ AuthAccepts
  \/ AuthRejects
  \/ AuthReturn

SpecAuth == InitAuth /\ [][NextAuth]_vars

----------------------------------------------------------------------------
(* useArchiveStation (lines 83-109 of the same file) *)

\* The messages updateDoc may reject with; "" is an error without one.
UpdateFailures == {"permission-denied", ""}

\* `Failed to update station status: ${err?.message || String(err)}`
FailureText(m) ==
  Str(<<"Failed to update station status: ", IF m # "" THEN m ELSE "Error">>)

\* Lines 88-94: setLoading(true), setError(null) and the update is sent.
ChangeStationStatus(c, stationId, statut) ==
  /\ hook.call[c].pc = "idle"
  /\ hook' = [hook EXCEPT !.loading = TRUE, !.error = Null,
                          !.call[c] = [pc |-> "await", stationId |-> stationId,
                                       statut |-> statut, thrown |-> ""]]
  /\ UNCHANGED <<proxy, wire, auth, form>>

\* archiveStation(stationId)
ArchiveStation(c, stationId) == ChangeStationStatus(c, stationId, "archive")

\* unarchiveStation(stationId)
UnarchiveStation(c, stationId) == ChangeStationStatus(c, stationId, "en activite")

\* updateDoc resolves: the document has the new Statut; finally
\* setLoading(false).
UpdateResolves(c) ==
  /\ hook.call[c].pc = "await"
  /\ hook' = [hook EXCEPT !.loading = FALSE,
                          !.stations[hook.call[c].stationId] = hook.call[c].statut,
                          !.call[c].pc = "fulfilled"]
  /\ UNCHANGED <<proxy, wire, auth, form>>

\* updateDoc rejects with message m: setError, rethrow, finally
\* setLoading(false).
UpdateRejects(c, m) ==
  /\ hook.call[c].pc = "await"
  /\ hook' = [hook EXCEPT !.loading = FALSE, !.error = FailureText(m),
                          !.call[c].pc = "rejected", !.call[c].thrown = m]
  /\ UNCHANGED <<proxy, wire, auth, form>>

\* The caller has seen its promise settle.
CallSettled(c) ==
  /\ hook.call[c].pc \in {"fulfilled", "rejected"}
  /\ hook' = [hook EXCEPT !.call[c] = CallIdle]
  /\ UNCHANGED <<proxy, wire, auth, form>>

InitArchive ==
  /\ ProxyAtRest
  /\ wire = WireIdle
  /\ auth = AuthIdle
  /\ hook = HookIdle
  /\ form = FormIdle

NextArchive ==
  \/ \E c \in Calls, stationId \in Stations : ArchiveStation(c, stationId)
  \/ \E c \in Calls, stationId \in Stations : UnarchiveStation(c, stationId)
  \/ \E c \in Calls : UpdateResolves(c)
  \/ \E c \in Calls, m \in UpdateFailures : UpdateRejects(c, m)
  \/ \E c \in Calls : CallSettled(c)

SpecArchive == InitArchive /\ [][NextArchive]_vars

----------------------------------------------------------------------------
(* The autorisation rows of StationForm (StationForm.tsx, lines 192-231 and *)
(* 521-601); addAutorisation, updateAutorisationField and                   *)
(* removeAutorisation come from the useStationForm hook                     *)

\* 'création' and 'mise en service' (written without the accent).
AutorisationTypes == {"creation", "mise en service"}

\* What a row's TypeAutorisation may hold: a type, or nothing ("").
StoredTypes == AutorisationTypes \cup {""}

\* The deferred updates that may be pending at once.
MaxTimers == 3

\* value={auto.TypeAutorisation || 'création'}: the type a row shows.
Displayed(type) == IF type = "" THEN "creation" ELSE type

\* Mutant of Opposite: always 'création'.
OppositeStuck(type) == "creation"

\* type === 'création' ? 'mise en service' : 'création'
Opposite(type) == IF type = "creation" THEN "mise en service" ELSE "creation"

\* The rows a form starts with: none, one, or two that show different types.
InitialRows ==
  {<<>>} \cup { <<a>> : a \in StoredTypes }
         \cup { r \in [1..2 -> StoredTypes] : Displayed(r[1]) # Displayed(r[2]) }

\* addAutorisation(): one more row, with the type the hook gives a new row.
AddAutorisation(rows, blank) == Append(rows, blank)

\* updateAutorisationField(index, 'TypeAutorisation', value) on the rows as
\* they are now; index counts from 0 and a row that is not there is left out.
UpdateAutorisationField(rows, index, value) ==
  [i \in 1..Len(rows) |-> IF i = index + 1 THEN value ELSE rows[i]]

\* removeAutorisation(index)
RemoveAutorisation(rows, index) ==
  SubSeq(rows, 1, index) \o SubSeq(rows, index + 2, Len(rows))

\* getAvailableAutorisationTypes(currentIndex): the types no other row holds.
GetAvailableAutorisationTypes(rows, currentIndex) ==
  AutorisationTypes \ {rows[i] : i \in {j \in 1..Len(rows) : j # currentIndex + 1}}

\* The 'Ajouter une autre autorisation' button is rendered.
AddOffered == form.loaded /\ Len(form.autorisations) < 2

\* The form data arrives.
FormLoad(rows) ==
  /\ ~form.loaded
  /\ form' = [loaded |-> TRUE, autorisations |-> rows, timers |-> <<>>]
  /\ UNCHANGED <<proxy, wire, auth, hook>>

\* handleAddAutorisation: the new type is computed from the first row, the
\* row is added and its update is deferred with setTimeout(.., 0).
HandleAddAutorisation(blank) ==
  LET autorisations == form.autorisations
      existingType  == IF autorisations = <<>> THEN "" ELSE autorisations[1]
      newType       == Opposite(existingType)
  IN  /\ AddOffered
      /\ Len(form.timers) < MaxTimers
      /\ form' = [form EXCEPT
                    !.autorisations = AddAutorisation(autorisations, blank),
                    !.timers = Append(@, [index |-> Len(autorisations), type |-> newType])]
      /\ UNCHANGED <<proxy, wire, auth, hook>>

\* The oldest deferred update runs.
DeferredUpdate ==
  /\ form.timers # <<>>
  /\ form' = [form EXCEPT
                !.autorisations = UpdateAutorisationField(@, form.timers[1].index,
                                                          form.timers[1].type),
                !.timers = Tail(@)]
  /\ UNCHANGED <<proxy, wire, auth, hook>>

\* handleAutorisationTypeChange(index, newType), newType one of the options
\* the row's select offers: the row gets newType, every other row the
\* opposite.
HandleAutorisationTypeChange(index, newType) ==
  /\ form.loaded
  /\ index + 1 \in 1..Len(form.autorisations)
  /\ newType \in GetAvailableAutorisationTypes(form.autorisations, index)
  /\ form' = [form EXCEPT !.autorisations =
                [i \in 1..Len(@) |-> IF i = index + 1 THEN newType ELSE Opposite(newType)]]
  /\ UNCHANGED <<proxy, wire, auth, hook>>

\* The 'Supprimer' button of a row, rendered while there are two rows.
HandleRemoveAutorisation(index) ==
  /\ form.loaded
  /\ Len(form.autorisations) > 1
  /\ index + 1 \in 1..Len(form.autorisations)
  /\ form' = [form EXCEPT !.autorisations = RemoveAutorisation(@, index)]
  /\ UNCHANGED <<proxy, wire, auth, hook>>

InitForm ==
  /\ ProxyAtRest
  /\ wire = WireIdle
  /\ auth = AuthIdle
  /\ hook = HookIdle
  /\ form = FormIdle

NextForm ==
  \/ \E rows \in InitialRows : FormLoad(rows)
  \/ \E blank \in StoredTypes : HandleAddAutorisation(blank)
  \/ DeferredUpdate
  \/ \E index \in 0..1, newType \in AutorisationTypes :
       HandleAutorisationTypeChange(index, newType)
  \/ \E index \in 0..1 : HandleRemoveAutorisation(index)

SpecForm == InitForm /\ [][NextForm]_vars

----------------------------------------------------------------------------
(* Vocabulary of the properties, stated from the request and the cache and *)
(* not from the handler's own operators                                    *)

\* A field that is missing or empty.
Missing(v) == v.type = "undefined" \/ (v.type = "string" /\ v.s = <<>>)

\* The number of "|"-separated items of a destinations string.
ItemCount(v) == Cardinality({i \in 1..Len(v.s) : v.s[i] = "|"}) + 1

\* The text of an option, its default when the body leaves it out.
Param(v, default) == IF v.type = "undefined" THEN <<default>> ELSE v.s

\* origins|destinations|mode|units|language
Fingerprint(b) ==
  b.origins.s \o <<"|">> \o b.destinations.s \o <<"|">> \o Param(b.mode, "DRIVE")
    \o <<"|">> \o Param(b.units, "METRIC") \o <<"|">> \o Param(b.language, "fr")

\* Origins and destinations present, a credential configured, at most 25
\* destinations.
PassesValidation(b, apiKey) ==
  /\ ~Missing(b.origins) /\ ~Missing(b.destinations)
  /\ ~Missing(apiKey)
  /\ b.destinations.type = "string" /\ ItemCount(b.destinations) <= 25

\* The cache holds an entry for key k that is less than the TTL old.
FreshEntry(k) == k \in DOMAIN cache /\ clock - cache[k].timestamp < 300000

\* This step is slot q's handler starting on a body it has read.
Began(q) ==
  req[q].pc = "idle" /\ req'[q].pc # "idle" /\ req'[q].body \in Bodies

\* This step, slot q's start, answered from the cache entry of key k.
ServedFromCache(q, k) ==
  /\ req'[q].pc = "done" /\ req'[q].calls = 0
  /\ k \in DOMAIN cache
  /\ req'[q].response = [status |-> 200, error |-> "", data |-> cache[k].data]

\* A finished call that missed, got a truthy payload with a success status
\* and answered with it.
CompletedStore(r) ==
  /\ r.pc = "done" /\ r.calls = 1 /\ r.upstream = 200
  /\ r.response.status = 200 /\ r.response.data.type = "object"

----------------------------------------------------------------------------
(* C1 *)

\* C1 as amended: when a first call has completed a successful miss (its
\* truthy upstream payload is the cache entry of its fingerprint), a second
\* call with identical parameters that starts while that entry is less than
\* the TTL old issues no outbound call and returns the first call's payload,
\* so the two calls issue one outbound call in total.
C1_SecondCallServedFromCache ==
  [][\A p, q \in Slots :
       ( /\ p # q
         /\ CompletedStore(req[p])
         /\ Began(q)
         /\ req'[q].body = req[p].body
         /\ PassesValidation(req'[q].body, req'[q].apiKey)
         /\ FreshEntry(Fingerprint(req[p].body))
         /\ cache[Fingerprint(req[p].body)].data = req[p].response.data )
       => /\ req'[q].pc = "done"
          /\ req[p].calls + req'[q].calls = 1
          /\ req'[q].response = req[p].response]_vars

\* C1 witness: both calls are finished, the first by a successful miss and the
\* second, with the same body, from the cache with the same response.
C1_Witness ==
  /\ CompletedStore(req["r1"])
  /\ req["r2"].pc = "done" /\ req["r2"].calls = 0
  /\ req["r2"].body = req["r1"].body
  /\ req["r2"].response = req["r1"].response

\* C1 as stated: for any valid request, a second identical call within the
\* TTL window (here: the whole run is younger than the TTL) makes the total
\* of outbound calls at most one and answers with the first call's response.
C1_Original ==
  [][\A p, q \in Slots :
       ( /\ p # q
         /\ req[p].pc = "done"
         /\ PassesValidation(req[p].body, req[p].apiKey)
         /\ Began(q)
         /\ req'[q].body = req[p].body
         /\ PassesValidation(req'[q].body, req'[q].apiKey)
         /\ clock < 300000 )
       => /\ req[p].calls + req'[q].calls <= 1
          /\ (req'[q].pc = "done" => req'[q].response = req[p].response)]_vars

----------------------------------------------------------------------------
(* C2 *)

\* C2: a request that passes validation is answered from the cache exactly
\* when the cache holds an entry for its fingerprint that is strictly less
\* than the TTL old at the lookup, swept or not; when the entry is older, it
\* is not returned and the request issues an outbound call.
C2_ServedIffFresh ==
  [][\A q \in Slots :
       (Began(q) /\ PassesValidation(req'[q].body, req'[q].apiKey))
       => LET k == Fingerprint(req'[q].body)
          IN  /\ ServedFromCache(q, k) <=> FreshEntry(k)
              /\ (k \in DOMAIN cache /\ ~FreshEntry(k))
                   => (req'[q].pc = "fetch" /\ req'[q].calls = 1)]_vars

\* C2 witness: a request is out on its upstream call while the cache still
\* holds, unswept, an entry for its fingerprint that is exactly the TTL old.
C2_Witness ==
  \E q \in Slots :
    /\ req[q].pc = "fetch"
    /\ req[q].cacheKey \in DOMAIN cache
    /\ clock - cache[req[q].cacheKey].timestamp = 300000

----------------------------------------------------------------------------
(* C3 *)

\* C3: a request whose destinations split into more than 25 items is answered
\* with status 400, issues no outbound call and leaves the cache unchanged,
\* also when the cache holds a fresh entry under the same fingerprint.
C3_TooManyDestinations ==
  [][\A q \in Slots :
       ( /\ Began(q)
         /\ req'[q].body.destinations.type = "string"
         /\ ItemCount(req'[q].body.destinations) > 25 )
       => /\ req'[q].pc = "done"
          /\ req'[q].response.status = 400
          /\ req'[q].calls = 0
          /\ cache' = cache]_vars

\* C3 witness: a request with 26 destinations has been refused with the
\* destination-count message while a fresh entry sits under its fingerprint.
C3_Witness ==
  \E q \in Slots :
    /\ req[q].pc = "done"
    /\ ItemCount(req[q].body.destinations) = 26
    /\ req[q].response = [status |-> 400, error |-> "Exceeds max 25 destinations.",
                          data |-> Undefined]
    /\ FreshEntry(Fingerprint(req[q].body))

----------------------------------------------------------------------------
(* C4 *)

\* C4: a request with origins or destinations missing or empty is answered
\* 400 'Missing origins or destinations' whatever the cache and the
\* credential are: no fingerprint is computed, no outbound call is issued and
\* the cache is unchanged.
C4_MissingInputs ==
  [][\A q \in Slots :
       ( /\ Began(q)
         /\ (Missing(req'[q].body.origins) \/ Missing(req'[q].body.destinations)) )
       => /\ req'[q].pc = "done"
          /\ req'[q].response = [status |-> 400,
                                 error |-> "Missing origins or destinations",
                                 data |-> Undefined]
          /\ req'[q].cacheKey = <<>>
          /\ req'[q].calls = 0
          /\ cache' = cache]_vars

\* C4 witness: a request with empty destinations has been refused while the
\* cache holds entries.
C4_Witness ==
  \E q \in Slots :
    /\ req[q].pc = "done"
    /\ req[q].body.destinations = Str(<<>>)
    /\ req[q].response.error = "Missing origins or destinations"
    /\ DOMAIN cache # {}

----------------------------------------------------------------------------
(* C5 *)

\* The response of a rate-limited upstream call.
RateLimited ==
  [status |-> 429, error |-> "Rate limit exceeded. Try later.", data |-> Undefined]

\* C5 as amended: whenever the upstream call returned HTTP 429 and its body
\* was read as JSON, whatever the body, the response is 429 'Rate limit
\* exceeded. Try later.' and the cache is unchanged; when reading the body
\* fails the response is 500 and the cache is unchanged as well.
C5_RateLimited ==
  [][\A p \in Slots :
       /\ \A data \in UpstreamData :
            (PostFinish(p, data) /\ req[p].upstream = 429)
            => (req'[p].response = RateLimited /\ cache' = cache)
       /\ \A m \in JsonFailures :
            (PostJsonFails(p, m) /\ req[p].upstream = 429)
            => (req'[p].response.status = 500 /\ cache' = cache)]_vars

\* C5 witness: a call has been answered 429 and an entry for its fingerprint,
\* written earlier, is still in the cache.
C5_Witness ==
  \E p \in Slots :
    /\ req[p].pc = "done" /\ req[p].upstream = 429
    /\ req[p].response = RateLimited
    /\ req[p].cacheKey \in DOMAIN cache

\* C5 as stated: whenever the upstream call returned HTTP 429, the response
\* is 429 'Rate limit exceeded. Try later.' and the cache is unchanged.
C5_Original ==
  [][\A p \in Slots :
       (req[p].pc = "json" /\ req[p].upstream = 429 /\ req'[p].pc = "done")
       => (req'[p].response = RateLimited /\ cache' = cache)]_vars

----------------------------------------------------------------------------
(* C6 *)

\* This step is slot q's successful miss completing with payload data while
\* slot p has already completed one for the same request body.
SecondWrite(p, q, data) ==
  /\ p # q
  /\ CompletedStore(req[p])
  /\ PostFinish(q, data)
  /\ req[q].body = req[p].body
  /\ req[q].upstream = 200
  /\ data.type = "object"

\* C6 as amended: two requests with identical parameters compute the same
\* fingerprint; when both miss, each writes its own upstream payload and
\* returns it, and after both have finished the cache entry of the
\* fingerprint holds the payload of the request that wrote last.
C6_LastWriterWins ==
  [][\A p, q \in Slots : \A data \in UpstreamData :
       SecondWrite(p, q, data)
       => /\ req[q].cacheKey = req[p].cacheKey
          /\ req[q].cacheKey = Fingerprint(req[q].body)
          /\ req[q].cacheKey \in DOMAIN cache'
          /\ cache'[req[q].cacheKey].data = data
          /\ req'[q].response.data = data
          /\ req'[p] = req[p]]_vars

\* C6 witness: two identical requests, both started before either wrote, have
\* both finished their own successful miss with different payloads, all at
\* the same instant.
C6_Witness ==
  /\ clock = 0
  /\ CompletedStore(req["r1"]) /\ CompletedStore(req["r2"])
  /\ req["r1"].body = req["r2"].body
  /\ req["r1"].response.data # req["r2"].response.data
  /\ cache[req["r1"].cacheKey].data = req["r2"].response.data

\* C6 as stated: of two identical requests that both started on an empty
\* cache (the run is younger than the TTL and the cache holds nothing else),
\* the first to write determines the entry the cache holds after both have
\* finished.
C6_Original ==
  [][\A p, q \in Slots : \A data \in UpstreamData :
       ( /\ SecondWrite(p, q, data)
         /\ clock < 300000
         /\ DOMAIN cache = {req[p].cacheKey} )
       => /\ req[q].cacheKey = req[p].cacheKey
          /\ req[q].cacheKey \in DOMAIN cache'
          /\ cache'[req[q].cacheKey].data = req[p].response.data]_vars

----------------------------------------------------------------------------
(* C7 *)

----------------------------------------------------------------------------
(* C8 *)

\* C8: a request issues at most one outbound call, and only on a cache miss;
\* it changes the cache only when it missed and the upstream call succeeded,
\* and then only the entry of its own fingerprint.
C8_SideEffects ==
  [][\A p \in Slots :
       req'[p] # req[p]
       => /\ req'[p].calls <= 1
          /\ req'[p].calls > req[p].calls
               => /\ Began(p)
                  /\ PassesValidation(req'[p].body, req'[p].apiKey)
                  /\ ~FreshEntry(Fingerprint(req'[p].body))
          /\ (Began(p) /\ ServedFromCache(p, Fingerprint(req'[p].body)))
               => req'[p].calls = 0
          /\ cache' # cache
               => /\ req[p].pc = "json" /\ req[p].calls = 1
                  /\ req[p].upstream >= 200 /\ req[p].upstream <= 299
                  /\ req'[p].response.status = 200
                  /\ DOMAIN cache' = DOMAIN cache \cup {req[p].cacheKey}
                  /\ \A k \in DOMAIN cache \ {req[p].cacheKey} : cache'[k] = cache[k]]_vars

\* C8 witness: a call that missed and got an upstream error status is
\* finished, and the entries of both fingerprints are still in the cache.
C8_Witness ==
  \E p \in Slots :
    /\ req[p].pc = "done" /\ req[p].calls = 1
    /\ req[p].upstream = 500 /\ req[p].response.status = 500
    /\ Cardinality(DOMAIN cache) = 2

----------------------------------------------------------------------------
(* C9 *)

----------------------------------------------------------------------------
(* C10 *)

\* The response to a failure with message m.
InternalError(m) ==
  [status |-> 500, error |-> IF m = "" THEN "Internal Server Error" ELSE m,
   data |-> Undefined]

\* C10: a call is in one of the handler's places and has a response exactly
\* when it is finished; a failure at any step (reading the request body,
\* parsing the inputs, the outbound call, reading the upstream body) ends the
\* call with status 500 and the failure's message or 'Internal Server Error',
\* touches neither the cache nor the other call, and the finished call only
\* ever gives its slot back for the next call.
C10_FailuresCaught ==
  [][\A p \in Slots :
       /\ req'[p].pc \in {"idle", "fetch", "json", "done"}
       /\ req'[p].pc = "done" <=> req'[p].response # NoResponse
       /\ (req[p].pc = "done" /\ req'[p] # req[p]) => req'[p] = Idle
       /\ \A m \in BodyFailures \cup FetchFailures \cup JsonFailures :
            (PostBodyFails(p, m) \/ FetchFails(p, m) \/ PostJsonFails(p, m))
            => /\ req'[p].pc = "done"
               /\ req'[p].response = InternalError(m)
               /\ cache' = cache
               /\ \A o \in Slots \ {p} : req'[o] = req[o]
       /\ ( /\ Began(p)
            /\ PassesValidation(req'[p].body, req'[p].apiKey)
            /\ ~FreshEntry(Fingerprint(req'[p].body))
            /\ req'[p].body.mode.type = "number" )
          => /\ req'[p].pc = "done"
             /\ req'[p].response = InternalError("mode.toUpperCase is not a function")
       /\ (PostFinish(p, Null) /\ req[p].upstream # 429)
          => /\ req'[p].response.status = 500
             /\ req'[p].response.error # ""
             /\ cache' = cache]_vars

\* C10 witness: one call has been answered 500 'Internal Server Error' and
\* the other call has completed a successful miss.
C10_Witness ==
  /\ req["r1"].pc = "done"
  /\ req["r1"].response = InternalError("")
  /\ CompletedStore(req["r2"])

----------------------------------------------------------------------------
(* C11 *)

\* C11: requests are not coalesced.  A request that passes validation and
\* starts while another one with the same parameters is out on its upstream
\* call, with no fresh entry for their fingerprint, issues an outbound call of
\* its own; and when a request's successful miss completes while the other
\* has missed on the same fingerprint too, the entry left is the payload just
\* written with the time of this write (last writer wins), the writer
\* returns its own payload and the other request keeps its own.
C11_NoSingleFlight ==
  [][\A p, q \in Slots :
       /\ ( /\ p # q
            /\ req[p].pc \in {"fetch", "json"}
            /\ Began(q)
            /\ req'[q].body = req[p].body
            /\ PassesValidation(req'[q].body, req'[q].apiKey)
            /\ ~FreshEntry(Fingerprint(req'[q].body)) )
          => /\ req'[q].pc = "fetch"
             /\ req'[q].calls = 1
             /\ req[p].calls = 1
             /\ req'[p] = req[p]
             /\ cache' = cache
       /\ \A data \in UpstreamData :
            ( /\ p # q
              /\ PostFinish(q, data)
              /\ req[q].upstream = 200
              /\ data.type = "object"
              /\ req[p].calls = 1
              /\ req[p].body = req[q].body )
            => /\ cache'[Fingerprint(req[q].body)] = [data |-> data, timestamp |-> clock]
               /\ req'[q].response = [status |-> 200, error |-> "", data |-> data]
               /\ req'[p] = req[p]]_vars

\* C11 witness: within one TTL of the start, so that no entry has ever
\* expired, two requests with the same parameters have both completed a
\* successful miss with different payloads; the entry is the second one's,
\* written now, and the first still holds its own payload.
C11_Witness ==
  /\ clock = TickMs
  /\ CompletedStore(req["r1"]) /\ CompletedStore(req["r2"])
  /\ req["r1"].body = req["r2"].body
  /\ req["r1"].response.data # req["r2"].response.data
  /\ cache[req["r2"].cacheKey] = [data |-> req["r2"].response.data, timestamp |-> clock]

----------------------------------------------------------------------------
(* C12 *)

\* C12: a sweep removes exactly the entries that are more than the TTL old
\* and leaves every other entry as it was, so it never removes an entry a
\* lookup at the same instant would serve; and whatever the interleaving,
\* every entry of the cache is a payload of a successful upstream response
\* together with the time of its write: an entry appears or changes only when
\* a request's upstream call, answered with a success status, completes, and
\* it is then that request's payload stamped with the current time.
C12_SweepExact ==
  [][/\ CleanupCache
        => /\ DOMAIN cache' = {k \in DOMAIN cache : clock - cache[k].timestamp <= 300000}
           /\ \A k \in DOMAIN cache' : cache'[k] = cache[k]
           /\ \A k \in DOMAIN cache : FreshEntry(k) => k \in DOMAIN cache'
     /\ \A k \in DOMAIN cache' :
          /\ DOMAIN cache'[k] = {"data", "timestamp"}
          /\ cache'[k].data.type = "object"
          /\ cache'[k].timestamp \in 0..clock'
          /\ (k \notin DOMAIN cache \/ cache'[k] # cache[k])
               => \E p \in Slots :
                    /\ req[p].pc = "json"
                    /\ req[p].upstream >= 200 /\ req[p].upstream <= 299
                    /\ k = Fingerprint(req[p].body)
                    /\ req'[p].response.status = 200
                    /\ cache'[k] = [data |-> req'[p].response.data, timestamp |-> clock]]_vars

\* C12 witness: of two entries written at time 0 and half a TTL later, a sweep
\* at one and a half TTL has removed the first and kept the second, which is
\* exactly the TTL old.
C12_Witness ==
  /\ clock = CACHE_TTL_MS + TickMs
  /\ CompletedStore(req["r1"]) /\ CompletedStore(req["r2"])
  /\ req["r1"].cacheKey \notin DOMAIN cache
  /\ req["r2"].cacheKey \in DOMAIN cache
  /\ clock - cache[req["r2"].cacheKey].timestamp = 300000
  /\ cache[req["r2"].cacheKey].data = req["r2"].response.data

----------------------------------------------------------------------------
(* C15 *)

\* C15: a request answered from the cache leaves the cache as it was, payload
\* and timestamp; the entry it is answered from is less than the TTL old,
\* and an entry's timestamp changes only when a successful miss overwrites
\* it.  An entry written at t is therefore never served at or after t + TTL,
\* however many hits it had.
C15_HitLeavesStore ==
  [][/\ \A q \in Slots :
          ( /\ Began(q)
            /\ req'[q].pc = "done" /\ req'[q].calls = 0
            /\ req'[q].response.status = 200 )
          => LET k == Fingerprint(req'[q].body)
             IN  /\ cache' = cache
                 /\ k \in DOMAIN cache
                 /\ req'[q].response.data = cache[k].data
                 /\ clock < cache[k].timestamp + 300000
     /\ \A k \in DOMAIN cache \cap DOMAIN cache' :
          cache'[k].timestamp # cache[k].timestamp
          => \E p \in Slots :
               /\ req[p].pc = "json" /\ req[p].calls = 1
               /\ CompletedStore(req'[p])
               /\ k = Fingerprint(req[p].body)]_vars

\* C15 witness: two requests have both been answered from an entry written
\* half a TTL earlier, and the entry still carries the time of its write.
C15_Witness ==
  /\ clock = TickMs
  /\ \A q \in Slots :
       /\ req[q].pc = "done" /\ req[q].calls = 0
       /\ req[q].response.status = 200
       /\ req[q].cacheKey \in DOMAIN cache
       /\ cache[req[q].cacheKey] = [data |-> req[q].response.data, timestamp |-> 0]
  /\ req["r1"].cacheKey = req["r2"].cacheKey

----------------------------------------------------------------------------
(* C13 *)

\* The numbers a reader takes from a destination item or an origin written
\* as text: latitude, then longitude.
Plain(neg, int, frac) == [kind |-> "number", neg |-> neg, int |-> int, frac |-> frac]

ExpectedLatLng(text) ==
  CASE text = <<"1", ",", "2">> ->
         [latitude |-> Plain(FALSE, 1, <<>>), longitude |-> Plain(FALSE, 2, <<>>)]
    [] text = <<"3", ",", "4">> ->
         [latitude |-> Plain(FALSE, 3, <<>>), longitude |-> Plain(FALSE, 4, <<>>)]
    [] text = <<"3", "4", ".", "0", ",", "-", "6", ".", "0">> ->
         [latitude |-> Plain(FALSE, 34, <<>>), longitude |-> Plain(TRUE, 6, <<>>)]
    [] text = <<"3", "4", ".", "1", "0", ",", "-", "6", ".", "1">> ->
         [latitude |-> Plain(FALSE, 34, <<"1">>), longitude |-> Plain(TRUE, 6, <<"1">>)]
    [] text = <<"1", ",", "2", ",", "3">> ->
         [latitude |-> Plain(FALSE, 1, <<>>), longitude |-> Plain(FALSE, 2, <<>>)]
    [] text = <<"5">> ->
         [latitude |-> Plain(FALSE, 5, <<>>),
          longitude |-> [kind |-> "undefined", neg |-> FALSE, int |-> 0, frac |-> <<>>]]
    [] text = <<"x", ",", "2">> ->
         [latitude |-> [kind |-> "NaN", neg |-> FALSE, int |-> 0, frac |-> <<>>],
          longitude |-> Plain(FALSE, 2, <<>>)]
    [] text = <<>> ->
         [latitude |-> Plain(FALSE, 0, <<>>),
          longitude |-> [kind |-> "undefined", neg |-> FALSE, int |-> 0, frac |-> <<>>]]

\* C13: the payload of an outbound call has exactly one origin, carrying the
\* origin's latitude and longitude, and one waypoint per '|'-separated item
\* of the destinations string, in the items' order, each carrying the
\* latitude and longitude read from its item (an item without a second
\* number has no longitude, a piece that is no number is NaN); the
\* destinations list has between 1 and 25 waypoints.
C13_WirePayload ==
  wire.pc = "sent"
  => /\ Len(wire.sent.origins) = 1
     /\ wire.sent.origins[1].waypoint.location.latLng = ExpectedLatLng(wire.origins)
     /\ Len(wire.sent.destinations) = Len(wire.items)
     /\ \A i \in 1..Len(wire.items) :
          wire.sent.destinations[i].waypoint.location.latLng = ExpectedLatLng(wire.items[i])
     /\ Len(wire.sent.destinations) >= 1
     /\ Len(wire.sent.destinations) <= 25

\* C13 witness: origin "34.0,-6.0" and destinations "34.10,-6.1|1,2" have
\* been sent as one origin and two waypoints, (34.1, -6.1) first.
C13_Witness ==
  /\ wire.pc = "sent"
  /\ wire.origins = <<"3", "4", ".", "0", ",", "-", "6", ".", "0">>
  /\ wire.items = << <<"3", "4", ".", "1", "0", ",", "-", "6", ".", "1">>, <<"1", ",", "2">> >>
  /\ Len(wire.sent.destinations) = 2
  /\ wire.sent.destinations[1].waypoint.location.latLng.longitude = Plain(TRUE, 6, <<"1">>)

----------------------------------------------------------------------------
(* C14 *)

\* The header starts with the scheme 'Bearer '.
Prefixed(h) == h.type = "string" /\ h.s # <<>> /\ Head(h.s) = "Bearer "

\* The token a prefixed header carries: everything after the scheme.
CarriedToken(h) == Tail(h.s)

\* The part of the carried token before the next 'Bearer ', if there is one.
FirstPart(h) ==
  LET rest  == Tail(h.s)
      stops == {i \in 1..Len(rest) : rest[i] = "Bearer "}
  IN  IF stops = {} THEN rest
      ELSE SubSeq(rest, 1, (CHOOSE i \in stops : \A j \in stops : i <= j) - 1)

----------------------------------------------------------------------------
(* C18 *)

\* C18 as stated: loading is true exactly while at least one status change
\* is in flight, overlapping calls included.
C18_Original ==
  hook.loading <=> \E c \in Calls : hook.call[c].pc = "await"

----------------------------------------------------------------------------
(* C16 *)

\* The five parameters of a request.
Params(b) ==
  <<b.origins.s, b.destinations.s, Param(b.mode, "DRIVE"),
    Param(b.units, "METRIC"), Param(b.language, "fr")>>

\* C16 as stated: a request answered from the cache gets a payload that the
\* upstream produced for a request with the same five parameters: when one
\* request has stored its payload and another has then been answered with
\* it from the entry of its own fingerprint, without an outbound call, the
\* two have the same origins, destinations, mode, units and language.
C16_Original ==
  \A p, q \in Slots :
    ( /\ CompletedStore(req[p])
      /\ req[q].pc = "done" /\ req[q].calls = 0
      /\ req[q].response = req[p].response
      /\ req[q].cacheKey = req[p].cacheKey )
    => Params(req[q].body) = Params(req[p].body)

----------------------------------------------------------------------------
(* C17 *)

\* The second sweep tick after time t: the ticks are the multiples of the
\* TTL.
SecondTickAfter(t) == (t \div 300000 + 2) * 300000

\* C17: with the sweep firing every TTL, an entry written at time t is in the
\* cache no later than the second sweep tick after t, which is at most twice
\* the TTL after t: when the clock is at that tick and the entry is still
\* there, the sweep of this tick has not run yet.  (At the first tick after
\* t the entry is at most the TTL old, so the sweep leaves it.)
C17_GoneBySecondTick ==
  \A k \in DOMAIN cache :
    LET t == cache[k].timestamp
    IN  /\ clock <= SecondTickAfter(t)
        /\ clock - t <= 2 * 300000
        /\ clock = SecondTickAfter(t) => nextSweep = clock

\* C17 witness: at twice the TTL the second sweep has run and the entry a
\* finished request wrote within the first interval is gone.
C17_Witness ==
  /\ clock = 2 * CACHE_TTL_MS
  /\ nextSweep = 3 * CACHE_TTL_MS
  /\ \E p \in Slots :
       /\ CompletedStore(req[p])
       /\ req[p].cacheKey \notin DOMAIN cache

----------------------------------------------------------------------------
(* C19 *)

\* C19 as stated: once no deferred update is pending, two autorisations never
\* show the same type.
C19_Original ==
  (form.timers = <<>> /\ Len(form.autorisations) = 2)
  => Displayed(form.autorisations[1]) # Displayed(form.autorisations[2])

====
